---------------------------- MODULE Spec2Model ----------------------------
(***************************************************************************)
(* A model of bettershutils: the decorators require_args and expand_paths, *)
(* the operations mv, rm, cp and ls built on them, and the context manager *)
(* current_directory, over a small tree-shaped filesystem.                 *)
(*                                                                         *)
(* A path is the sequence of its components; the root is <<>>.  A raw      *)
(* argument, as a caller writes it, is a record [kind, comps]: kind "abs"  *)
(* for "/a/b", "rel" for "a/b" ("." has no components) and "home" for      *)
(* "~/a/b".  A component "*" is the glob wildcard.                         *)
(***************************************************************************)
EXTENDS Integers, Sequences, FiniteSets, TLC

(***************************************************************************)
(* Bounds of the model.                                                    *)
(***************************************************************************)
\* The largest number of positional arguments of one call.
MaxArgs == 3
\* The largest bound a require_args decorator is built with.
MaxBound == 3
\* The deepest nesting of current_directory scopes.
MaxNest == 2

\* The file names of the model, in the order a directory lists them.
NameOrder == <<"a", "b">>
Names == {NameOrder[i] : i \in 1..Len(NameOrder)}
\* The file contents of the model.
Contents == {"f", "g"}
\* The invoking user's home directory.
Home == <<"b">>

Star == "*"
Root == <<>>
Paths == {Root} \cup {<<n>> : n \in Names} \cup {<<n, m>> : n \in Names, m \in Names}
Kinds == {"none", "dir"} \cup Contents

VARIABLES
    fs,     \* the filesystem: the kind of every path ("none", "dir" or a file's content)
    cwd,    \* the process working directory
    scopes, \* the working directories saved by the current_directory scopes entered
    last    \* the last call: its arguments, the state before it and what it did

vars == <<fs, cwd, scopes, last>>

(***************************************************************************)
(* The filesystem primitives of os and os.path.                            *)
(***************************************************************************)
Parent(p) == SubSeq(p, 1, Len(p) - 1)
Basename(p) == p[Len(p)]
IsPrefix(d, p) == Len(d) <= Len(p) /\ SubSeq(p, 1, Len(d)) = d
Suffix(d, p) == SubSeq(p, Len(d) + 1, Len(p))

Kind(f, p) == IF p \in Paths THEN f[p] ELSE "none"
exists(f, p) == Kind(f, p) # "none"
isdir(f, p) == Kind(f, p) = "dir"

WellFormed(f) ==
    /\ f[Root] = "dir"
    /\ \A p \in Paths \ {Root} : f[p] # "none" => f[Parent(p)] = "dir"
AllFS == {f \in [Paths -> Kinds] : WellFormed(f)}

\* os.listdir(d), for a directory d: the names of its entries
listdir(f, d) == SelectSeq(NameOrder, LAMBDA n : exists(f, d \o <<n>>))

\* os.unlink(p)
unlink(f, p) ==
    IF ~exists(f, p) THEN [fs |-> f, err |-> "FileNotFoundError"]
    ELSE IF isdir(f, p) THEN [fs |-> f, err |-> "IsADirectoryError"]
    ELSE [fs |-> [f EXCEPT ![p] = "none"], err |-> "ok"]

\* shutil.rmtree(p, ignore_errors) of a directory p: everything below p goes, then
\* p itself; the root cannot be removed, which is an error unless ignored
rmtree(f, p, ignore_errors) ==
    [fs  |-> [q \in Paths |-> IF IsPrefix(p, q) /\ q # Root THEN "none" ELSE f[q]],
     err |-> IF p = Root /\ ~ignore_errors THEN "OSError" ELSE "ok"]

(***************************************************************************)
(* expand_path, and glob.glob on an expanded path.                         *)
(***************************************************************************)
\* path.expanduser: a leading "~" becomes the home directory
expanduser(raw) ==
    IF raw.kind = "home" THEN [kind |-> "abs", comps |-> Home \o raw.comps] ELSE raw

\* path.abspath: a relative path is taken from the working directory
abspath(c, raw) == IF raw.kind = "abs" THEN raw.comps ELSE c \o raw.comps

expand_path(c, raw) == abspath(c, expanduser(raw))

has_magic(p) == \E i \in 1..Len(p) : p[i] = Star

\* glob.glob0: a literal name in a directory
glob0(f, dirname, basename) ==
    IF exists(f, dirname \o <<basename>>) THEN <<basename>> ELSE <<>>

\* glob.glob1: the entries of a directory that match the pattern "*"
glob1(f, dirname) == IF isdir(f, dirname) THEN listdir(f, dirname) ELSE <<>>

RECURSIVE glob_join(_, _, _, _)
\* the inner loops of glob._iglob: for each directory, in order, its matches
glob_join(f, dirs, basename, i) ==
    IF i > Len(dirs) THEN <<>>
    ELSE LET names == IF basename = Star THEN glob1(f, dirs[i])
                      ELSE glob0(f, dirs[i], basename)
         IN  [k \in 1..Len(names) |-> dirs[i] \o <<names[k]>>]
             \o glob_join(f, dirs, basename, i + 1)

RECURSIVE glob(_, _)
\* glob.glob(pathname), for an absolute pathname
glob(f, pathname) ==
    IF ~has_magic(pathname)
    THEN IF exists(f, pathname) THEN <<pathname>> ELSE <<>>
    ELSE LET dirname == Parent(pathname)
             dirs == IF has_magic(dirname) THEN glob(f, dirname) ELSE <<dirname>>
         IN  glob_join(f, dirs, Basename(pathname), 1)

(***************************************************************************)
(* What a call did: the filesystem it left, how it ended ("ok" or the      *)
(* exception's class), what it returned, whether the decorated function's  *)
(* body was entered and with which positional arguments, and how many of   *)
(* them the body had dealt with when it ended.                             *)
(***************************************************************************)
NoResult == [shape |-> "none", seq |-> <<>>, map |-> <<>>]

Done(f, outcome, result, passed, at) ==
    [fs |-> f, outcome |-> outcome, result |-> result, ran |-> TRUE,
     passed |-> passed, kwpassed |-> <<>>, at |-> at, msg |-> "", fits |-> TRUE]

\* the same, told the named arguments the body was entered with
With(kwargs, r) == [r EXCEPT !.kwpassed = kwargs]

(***************************************************************************)
(* The decorators.                                                         *)
(***************************************************************************)
\* An optional bound: {} is None, {n} is n.
None == {}
Some(n) == {n}
Val(o) == CHOOSE n \in o : TRUE

_get_num_args_text(min, max) ==
    IF min # None /\ max # None
    THEN ToString(Val(min)) \o " to " \o ToString(Val(max)) \o " arguments"
    ELSE IF min # None
    THEN "at least " \o ToString(Val(min)) \o " argument"
         \o (IF Val(min) > 1 THEN "s" ELSE "")
    ELSE IF max # None
    THEN "no more than " \o ToString(Val(max)) \o " arguments"
    ELSE "any number of arguments"

\* the wrapper of require_args raising TypeError: the call ends here
Raised(f, msg) ==
    [fs |-> f, outcome |-> "TypeError", result |-> NoResult, ran |-> FALSE,
     passed |-> <<>>, kwpassed |-> <<>>, at |-> 0, fits |-> TRUE, msg |-> msg]

\* require_args with a plausible bug: the upper bound is taken as exclusive
require_args_exclusive_max(min, max, args, kwargs) ==
    LET msg == "takes " \o _get_num_args_text(min, max)
               \o ", but " \o ToString(Len(args)) \o " given"
    IN  IF max # None /\ Len(args) >= Val(max)
        THEN [raised |-> TRUE, msg |-> msg, args |-> <<>>, kwargs |-> <<>>]
        ELSE IF min # None /\ Len(args) < Val(min)
        THEN [raised |-> TRUE, msg |-> msg, args |-> <<>>, kwargs |-> <<>>]
        ELSE [raised |-> FALSE, msg |-> "", args |-> args, kwargs |-> kwargs]

\* require_args(min, max)(func)(*args, **kwargs): the wrapper raises TypeError, or
\* calls func with the arguments it hands on
require_args(min, max, args, kwargs) ==
    LET msg == "takes " \o _get_num_args_text(min, max)
               \o ", but " \o ToString(Len(args)) \o " given"
    IN  IF max # None /\ Len(args) > Val(max)
        THEN [raised |-> TRUE, msg |-> msg, args |-> <<>>, kwargs |-> <<>>]
        ELSE IF min # None /\ Len(args) < Val(min)
        THEN [raised |-> TRUE, msg |-> msg, args |-> <<>>, kwargs |-> <<>>]
        ELSE [raised |-> FALSE, msg |-> "", args |-> args, kwargs |-> kwargs]

RECURSIVE glob_all(_, _, _)
\* the loop of expand_paths that extends new_args by each argument's matches
glob_all(f, fargs, i) ==
    IF i > Len(fargs) THEN <<>>
    ELSE glob(f, fargs[i]) \o glob_all(f, fargs, i + 1)

RECURSIVE glob_or_keep(_, _, _)
\* glob_all with a plausible bug: a pattern that matches nothing is kept as it is
glob_or_keep(f, fargs, i) ==
    IF i > Len(fargs) THEN <<>>
    ELSE (IF glob(f, fargs[i]) = <<>> THEN <<fargs[i]>> ELSE glob(f, fargs[i]))
         \o glob_or_keep(f, fargs, i + 1)

expand_args_keeping_unmatched(f, c, do_glob, fargs) ==
    LET expanded == [i \in 1..Len(fargs) |-> expand_path(c, fargs[i])]
    IN  IF do_glob THEN glob_or_keep(f, expanded, 1) ELSE expanded

\* the positional arguments expand_paths(do_glob=...) hands to the function
expand_args(f, c, do_glob, fargs) ==
    LET expanded == [i \in 1..Len(fargs) |-> expand_path(c, fargs[i])]
    IN  IF do_glob THEN glob_all(f, expanded, 1) ELSE expanded

\* the named arguments expand_paths(*keys) hands to the function
expand_kwargs(c, keys, fkwargs) ==
    [k \in DOMAIN fkwargs |-> IF k \in keys THEN expand_path(c, fkwargs[k]) ELSE fkwargs[k]]

\* expand_paths(*keys, do_glob=...)(func)(*fargs, **fkwargs), in a filesystem f with
\* working directory c: the arguments the wrapper calls func with
expand_paths(keys, do_glob, f, c, fargs, fkwargs) ==
    [args |-> expand_args(f, c, do_glob, fargs), kwargs |-> expand_kwargs(c, keys, fkwargs)]

(***************************************************************************)
(* rm                                                                      *)
(***************************************************************************)
RECURSIVE rm_loop(_, _, _, _, _)
\* the body of rm from its i-th argument on
rm_loop(f, args, i, recursive, ignore_errors) ==
    IF i > Len(args) THEN Done(f, "ok", NoResult, args, i - 1)
    ELSE IF ~exists(f, args[i]) /\ ignore_errors
    THEN rm_loop(f, args, i + 1, recursive, ignore_errors)
    ELSE IF isdir(f, args[i])
    THEN IF ~recursive
         THEN IF ignore_errors
              THEN rm_loop(f, args, i + 1, recursive, ignore_errors)
              ELSE Done(f, "OSError", NoResult, args, i - 1)
         ELSE LET r == rmtree(f, args[i], ignore_errors)
              IN  IF r.err = "ok"
                  THEN rm_loop(r.fs, args, i + 1, recursive, ignore_errors)
                  ELSE Done(r.fs, r.err, NoResult, args, i - 1)
    ELSE LET u == unlink(f, args[i])
         IN  IF u.err = "ok"
             THEN rm_loop(u.fs, args, i + 1, recursive, ignore_errors)
             ELSE Done(f, u.err, NoResult, args, i - 1)

\* rm_body with a plausible bug: a directory is passed over whatever ignore_errors is
rm_body_quiet(f, args, kw) ==
    With(kw, rm_loop(f, args, 1, kw.recursive, TRUE))

rm_body(f, args, kw) ==
    With(kw, rm_loop(f, args, 1, kw.recursive, kw.ignore_errors))

\* rm as decorated: @require_args(min=1) outside @expand_paths()
rm(f, c, args, kw) ==
    LET r == require_args(Some(1), None, args, kw)
        e == expand_paths({}, TRUE, f, c, r.args, r.kwargs)
    IN  IF r.raised THEN Raised(f, r.msg) ELSE rm_body(f, e.args, e.kwargs)

(***************************************************************************)
(* cp, with shutil.copy and shutil.copytree.                               *)
(***************************************************************************)
\* path.join(target, path.basename(source)); the root's basename is empty
join_basename(target, source) ==
    IF source = Root THEN target ELSE target \o <<Basename(source)>>

\* shutil.copy(src, dst): into dst when dst is a directory, else onto dst.  fits is
\* false when the copy would leave the paths of the model.
copy(f, src, dst) ==
    LET real_dst == IF isdir(f, dst) THEN join_basename(dst, src) ELSE dst
        err == IF exists(f, src) /\ real_dst = src THEN "SameFileError"
               ELSE IF ~exists(f, src) THEN "FileNotFoundError"
               ELSE IF isdir(f, src) THEN "IsADirectoryError"
               ELSE IF isdir(f, real_dst) THEN "IsADirectoryError"
               ELSE IF ~exists(f, Parent(real_dst)) THEN "FileNotFoundError"
               ELSE IF ~isdir(f, Parent(real_dst)) THEN "NotADirectoryError"
               ELSE "ok"
    IN  IF err # "ok" THEN [fs |-> f, err |-> err, fits |-> TRUE]
        ELSE IF real_dst \notin Paths THEN [fs |-> f, err |-> "ok", fits |-> FALSE]
        ELSE [fs |-> [f EXCEPT ![real_dst] = f[src]], err |-> "ok", fits |-> TRUE]

\* the ancestors of p, p excluded, that do not exist yet: os.makedirs creates them
missing_parents(f, p) == {SubSeq(p, 1, n) : n \in 0..(Len(p) - 1)} \ {q \in Paths : exists(f, q)}

\* shutil.copytree(src, dst) of a directory src: dst must not exist; it is made,
\* with its missing parents, and src's tree as it was is copied below it
copytree(f, src, dst) ==
    LET err == IF ~exists(f, src) THEN "FileNotFoundError"
               ELSE IF ~isdir(f, src) THEN "NotADirectoryError"
               ELSE IF exists(f, dst) THEN "FileExistsError"
               ELSE IF \E q \in Paths : IsPrefix(q, dst) /\ exists(f, q) /\ ~isdir(f, q)
                    THEN "NotADirectoryError"
               ELSE "ok"
        made == missing_parents(f, dst)
        fits == /\ dst \in Paths
                /\ \A q \in Paths : IsPrefix(src, q) /\ exists(f, q)
                                    => dst \o Suffix(src, q) \in Paths
    IN  IF err # "ok" THEN [fs |-> f, err |-> err, fits |-> TRUE]
        ELSE IF ~fits THEN [fs |-> f, err |-> "ok", fits |-> FALSE]
        ELSE [fs |-> [q \in Paths |->
                        IF IsPrefix(dst, q) THEN Kind(f, src \o Suffix(dst, q))
                        ELSE IF q \in made THEN "dir" ELSE f[q]],
              err |-> "ok", fits |-> TRUE]

Stop(f, outcome, passed, at, fits) ==
    [fs |-> f, outcome |-> outcome, result |-> NoResult, ran |-> TRUE,
     passed |-> passed, kwpassed |-> <<>>, at |-> at, msg |-> "", fits |-> fits]

RECURSIVE cp_loop(_, _, _, _)
\* the loop of cp over its sources when the target is a directory
cp_loop(f, args, i, recursive) ==
    LET target == args[Len(args)]
        source == args[i]
    IN  IF i > Len(args) - 1 THEN Done(f, "ok", NoResult, args, i - 1)
        ELSE IF isdir(f, source)
        THEN IF recursive
             THEN LET t == copytree(f, source, join_basename(target, source))
                  IN  IF t.err = "ok" /\ t.fits
                      THEN cp_loop(t.fs, args, i + 1, recursive)
                      ELSE Stop(f, t.err, args, i - 1, t.fits)
             ELSE cp_loop(f, args, i + 1, recursive)
        ELSE LET t == copy(f, source, target)
             IN  IF t.err = "ok" /\ t.fits
                 THEN cp_loop(t.fs, args, i + 1, recursive)
                 ELSE Stop(f, t.err, args, i - 1, t.fits)

cp_body(f, args, kw) ==
    With(kw,
    IF Len(args) = 0 THEN Done(f, "IndexError", NoResult, args, 0)
    ELSE LET target == args[Len(args)]
             sources == SubSeq(args, 1, Len(args) - 1)
         IN  IF ~isdir(f, target) /\ Len(sources) > 1
             THEN Done(f, "ValueError", NoResult, args, 0)
             ELSE IF isdir(f, target) THEN cp_loop(f, args, 1, kw.recursive)
             ELSE IF Len(sources) = 0 THEN Done(f, "IndexError", NoResult, args, 0)
             ELSE IF isdir(f, sources[1]) /\ exists(f, target)
             THEN Done(f, "FileExistsError", NoResult, args, 0)
             ELSE LET t == IF isdir(f, sources[1]) THEN copytree(f, sources[1], target)
                           ELSE copy(f, sources[1], target)
                  IN  IF t.err = "ok" /\ t.fits THEN Done(t.fs, "ok", NoResult, args, 1)
                      ELSE Stop(f, t.err, args, 0, t.fits))

\* cp with a plausible bug: the decorators the other way round, the arguments
\* counted after expansion
cp_counted_after_expansion(f, c, args, kw) ==
    LET e == expand_paths({}, TRUE, f, c, args, kw)
        r == require_args(Some(2), None, e.args, e.kwargs)
    IN  IF r.raised THEN Raised(f, r.msg) ELSE cp_body(f, r.args, r.kwargs)

\* cp as decorated: @require_args(min=2) outside @expand_paths()
cp(f, c, args, kw) ==
    LET r == require_args(Some(2), None, args, kw)
        e == expand_paths({}, TRUE, f, c, r.args, r.kwargs)
    IN  IF r.raised THEN Raised(f, r.msg) ELSE cp_body(f, e.args, e.kwargs)

(***************************************************************************)
(* mv, with shutil.move.  mv's arguments are not expanded: the operating   *)
(* system resolves them, a relative one from the working directory, and    *)
(* "~" and "*" are ordinary names to it.                                   *)
(***************************************************************************)
ospath(c, raw) ==
    IF raw.kind = "abs" THEN raw.comps
    ELSE IF raw.kind = "rel" THEN c \o raw.comps
    ELSE c \o <<"~">> \o raw.comps

\* os.rename(src, dst) where it succeeds: src's tree goes to dst
rename(f, src, dst) ==
    [q \in Paths |-> IF IsPrefix(dst, q) THEN Kind(f, src \o Suffix(dst, q))
                     ELSE IF IsPrefix(src, q) THEN "none"
                     ELSE f[q]]

\* shutil.move(src, dst), src and dst as the operating system resolves them
move(f, src, dst) ==
    LET real_dst == IF isdir(f, dst) THEN join_basename(dst, src) ELSE dst
        fits == /\ real_dst \in Paths
                /\ \A q \in Paths : IsPrefix(src, q) /\ exists(f, q)
                                    => real_dst \o Suffix(src, q) \in Paths
        moved == rename(f, src, real_dst)
    IN  IF isdir(f, dst) /\ exists(f, src) /\ src = dst
        THEN [fs |-> f, err |-> "ok", fits |-> TRUE]             \* the same file: no move
        ELSE IF isdir(f, dst) /\ exists(f, real_dst)
        THEN [fs |-> f, err |-> "Error", fits |-> TRUE]          \* destination exists
        ELSE IF ~exists(f, src)
        THEN [fs |-> f, err |-> "FileNotFoundError", fits |-> TRUE]
        ELSE IF isdir(f, src) /\ IsPrefix(src, dst)
        THEN [fs |-> f, err |-> "Error", fits |-> TRUE]          \* into itself
        ELSE IF isdir(f, src) /\ exists(f, real_dst)
        THEN [fs |-> f, err |-> "FileExistsError", fits |-> TRUE]
        ELSE IF \E q \in Paths : IsPrefix(q, real_dst) /\ q # real_dst
                                 /\ exists(f, q) /\ ~isdir(f, q)
        THEN [fs |-> f, err |-> "NotADirectoryError", fits |-> TRUE]
        ELSE IF ~isdir(f, src) /\ ~exists(f, Parent(real_dst))
        THEN [fs |-> f, err |-> "FileNotFoundError", fits |-> TRUE]
        ELSE IF ~fits THEN [fs |-> f, err |-> "ok", fits |-> FALSE]
        ELSE [fs |-> [q \in Paths |-> IF q \in missing_parents(f, real_dst)
                                      THEN "dir" ELSE moved[q]],
              err |-> "ok", fits |-> TRUE]

RECURSIVE mv_loop(_, _, _, _)
\* the loop of mv over its sources when the target is a directory
mv_loop(f, c, args, i) ==
    IF i > Len(args) - 1 THEN Done(f, "ok", NoResult, args, i - 1)
    ELSE LET t == move(f, ospath(c, args[i]), ospath(c, args[Len(args)]))
         IN  IF t.err = "ok" /\ t.fits THEN mv_loop(t.fs, c, args, i + 1)
             ELSE Stop(f, t.err, args, i - 1, t.fits)

\* mv_body with a plausible bug: no check that many sources need a directory
mv_body_unchecked(f, c, args, kw) ==
    With(kw,
    LET target == ospath(c, args[Len(args)])
    IN  IF isdir(f, target) THEN mv_loop(f, c, args, 1)
        ELSE LET t == move(f, ospath(c, args[1]), target)
             IN  IF t.err = "ok" /\ t.fits THEN Done(t.fs, "ok", NoResult, args, 1)
                 ELSE Stop(f, t.err, args, 0, t.fits))

mv_body(f, c, args, kw) ==
    With(kw,
    LET target == ospath(c, args[Len(args)])
        sources == SubSeq(args, 1, Len(args) - 1)
    IN  IF ~isdir(f, target) /\ Len(sources) > 1
        THEN Done(f, "ValueError", NoResult, args, 0)
        ELSE IF isdir(f, target) THEN mv_loop(f, c, args, 1)
        ELSE LET t == move(f, ospath(c, sources[1]), target)
             IN  IF t.err = "ok" /\ t.fits THEN Done(t.fs, "ok", NoResult, args, 1)
                 ELSE Stop(f, t.err, args, 0, t.fits))

\* mv as decorated: @require_args(min=2, max=None)
mv(f, c, args, kw) ==
    LET r == require_args(Some(2), None, args, kw)
    IN  IF r.raised THEN Raised(f, r.msg) ELSE mv_body(f, c, r.args, r.kwargs)

(***************************************************************************)
(* ls.  The body sees each argument as a string: an expanded, absolute     *)
(* path, or the "." of a call without arguments.  A name that listdir      *)
(* returns is the relative path of that one component.                     *)
(***************************************************************************)
\* glob.glob(arg) in the body of ls
ls_glob(f, arg) ==
    IF arg.kind = "abs"
    THEN LET g == glob(f, arg.comps) IN [i \in 1..Len(g) |-> [kind |-> "abs", comps |-> g[i]]]
    ELSE <<>>

ls_entry(f, c, arg) ==
    IF isdir(f, ospath(c, arg))
    THEN LET names == listdir(f, ospath(c, arg))
         IN  [i \in 1..Len(names) |-> [kind |-> "rel", comps |-> <<names[i]>>]]
    ELSE IF exists(f, ospath(c, arg)) THEN <<arg>>
    ELSE ls_glob(f, arg)

ls_body(f, c, given, kw) ==
    LET args == IF Len(given) = 0 THEN <<[kind |-> "rel", comps |-> <<>>]>> ELSE given
        results == [k \in {args[i] : i \in 1..Len(args)} |-> ls_entry(f, c, k)]
    IN  With(kw,
        IF Cardinality(DOMAIN results) = 1
        THEN Done(f, "ok", [shape |-> "seq", seq |-> results[args[1]], map |-> <<>>],
                  given, Len(args))
        ELSE Done(f, "ok", [shape |-> "map", seq |-> <<>>, map |-> results],
                  given, Len(args)))

\* ls as decorated: @expand_paths('path', do_glob=False); the body takes strings
ls(f, c, args, kw) ==
    LET e == expand_paths({"path"}, FALSE, f, c, args, kw)
    IN  ls_body(f, c, [i \in 1..Len(e.args) |-> [kind |-> "abs", comps |-> e.args[i]]],
                e.kwargs)

(***************************************************************************)
(* The calls.                                                              *)
(***************************************************************************)
Abs(comps) == [kind |-> "abs", comps |-> comps]
Rel(comps) == [kind |-> "rel", comps |-> comps]
Tilde(comps) == [kind |-> "home", comps |-> comps]

ArgLists(S) == UNION {[1..n -> S] : n \in 0..MaxArgs}


Record(op, args, kw, r) ==
    [op |-> op, cfg |-> <<>>, args |-> args, kw |-> kw, pre |-> fs, precwd |-> cwd,
     outcome |-> r.outcome, result |-> r.result, ran |-> r.ran,
     passed |-> r.passed, kwpassed |-> r.kwpassed, at |-> r.at, msg |-> r.msg]

RmArgs == {Rel(<<"b">>), Abs(<<"a", Star>>), Tilde(<<"a">>)}
MvArgs == {Abs(<<"a">>), Abs(<<"b", "a">>), Abs(<<"b", "b">>), Rel(<<"b">>), Tilde(<<"a">>)}
LsArgs == {Abs(<<"a">>), Rel(<<"a">>), Abs(<<"a", Star>>), Tilde(<<"a">>)}
CpArgs == {Abs(<<"a">>), Abs(<<"b">>), Rel(<<"a">>), Abs(<<"a", Star>>)}

\* No call is in progress and the last one's result has been taken.
Idle(f, c) ==
    [op |-> "none", cfg |-> <<>>, args |-> <<>>, kw |-> <<>>, pre |-> f, precwd |-> c,
     outcome |-> "ok", result |-> NoResult, ran |-> FALSE,
     passed |-> <<>>, kwpassed |-> <<>>, at |-> 0, msg |-> ""]

\* The caller takes the result of the last call (or catches its exception).
Return ==
    /\ last.op # "none"
    /\ last' = Idle(fs, cwd)
    /\ UNCHANGED <<fs, cwd, scopes>>

CallRm ==
    /\ last.op = "none"
    /\ \E args \in ArgLists(RmArgs), recursive \in BOOLEAN, ignore_errors \in BOOLEAN :
        LET kw == [recursive |-> recursive, ignore_errors |-> ignore_errors]
            r == rm(fs, cwd, args, kw)
        IN  /\ fs' = r.fs
            /\ last' = Record("rm", args, kw, r)
            /\ UNCHANGED <<cwd, scopes>>

\* A call of cp; one whose copy would leave the paths of the model is left out.
CallCp ==
    /\ last.op = "none"
    /\ \E args \in ArgLists(CpArgs), recursive \in BOOLEAN :
        LET kw == [recursive |-> recursive]
            r == cp(fs, cwd, args, kw)
        IN  /\ r.fits
            /\ fs' = r.fs
            /\ last' = Record("cp", args, kw, r)
            /\ UNCHANGED <<cwd, scopes>>

\* A call of mv; one whose move would leave the paths of the model is left out.
CallMv ==
    /\ last.op = "none"
    /\ \E args \in ArgLists(MvArgs) :
        LET r == mv(fs, cwd, args, <<>>)
        IN  /\ r.fits
            /\ fs' = r.fs
            /\ last' = Record("mv", args, <<>>, r)
            /\ UNCHANGED <<cwd, scopes>>

CallLs ==
    /\ last.op = "none"
    /\ \E args \in ArgLists(LsArgs) :
        LET r == ls(fs, cwd, args, <<>>)
        IN  /\ fs' = r.fs
            /\ last' = Record("ls", args, <<>>, r)
            /\ UNCHANGED <<cwd, scopes>>

Init ==
    /\ fs \in AllFS
    /\ cwd \in {Root, <<"a">>}
    /\ isdir(fs, cwd)
    /\ scopes = <<>>
    /\ last = Idle(fs, cwd)

Next == CallMv \/ CallRm \/ CallCp \/ CallLs \/ Return
Spec == Init /\ [][Next]_vars

(***************************************************************************)
(* current_directory: a generator-based context manager.  Entering runs    *)
(* the generator to its yield; leaving resumes it after the yield when the *)
(* body returned, and raises the body's exception at the yield, where      *)
(* nothing catches it, when the body raised.                               *)
(***************************************************************************)
\* os.chdir(d)
chdir(f, c, d) ==
    IF isdir(f, d) THEN [cwd |-> d, err |-> "ok"]
    ELSE IF exists(f, d) THEN [cwd |-> c, err |-> "NotADirectoryError"]
    ELSE [cwd |-> c, err |-> "FileNotFoundError"]

\* the generator up to its yield: the directory it saved and where it left the process
current_directory_enter(f, c, new_dir) ==
    LET cur_dir == c
        t == chdir(f, c, expand_path(c, new_dir))
    IN  [cur_dir |-> cur_dir, cwd |-> t.cwd, err |-> t.err]

\* the generator from its yield on, the body having returned (raised = FALSE) or
\* raised (raised = TRUE)
current_directory_exit(f, c, cur_dir, raised) ==
    IF raised THEN [cwd |-> c, err |-> "BodyError"]
    ELSE chdir(f, c, cur_dir)

ScopeRecord(op, args, kw, outcome) ==
    [Idle(fs, cwd) EXCEPT !.op = op, !.args = args, !.kw = kw, !.outcome = outcome]

DirArgs == {Abs(<<"a">>), Rel(<<"b">>), Tilde(<<>>), Rel(<<>>)}

\* with current_directory(d): the scope is entered, unless chdir raises
EnterScope ==
    /\ last.op = "none"
    /\ Len(scopes) < MaxNest
    /\ \E d \in DirArgs :
        LET e == current_directory_enter(fs, cwd, d)
        IN  /\ cwd' = e.cwd
            /\ scopes' = IF e.err = "ok" THEN Append(scopes, e.cur_dir) ELSE scopes
            /\ last' = ScopeRecord("enter", <<d>>, <<>>, e.err)
            /\ UNCHANGED fs

\* the body of the innermost scope returns, or raises
ExitScope ==
    /\ last.op = "none"
    /\ Len(scopes) > 0
    /\ \E raised \in BOOLEAN :
        LET cur_dir == scopes[Len(scopes)]
            x == current_directory_exit(fs, cwd, cur_dir, raised)
        IN  /\ cwd' = x.cwd
            /\ scopes' = SubSeq(scopes, 1, Len(scopes) - 1)
            /\ last' = ScopeRecord("exit", <<>>, [cur_dir |-> cur_dir, raised |-> raised], x.err)
            /\ UNCHANGED fs

ScopeNext == EnterScope \/ ExitScope \/ Return
SpecScope == Init /\ [][ScopeNext]_vars

(***************************************************************************)
(* The decorators around a function that records what it is called with    *)
(* and returns a value of its own.                                         *)
(***************************************************************************)
Returned(ret) == [shape |-> "value", seq |-> <<ret>>, map |-> <<>>]
Recorder(f, ret, a, k) == With(k, Done(f, "ok", Returned(ret), a, 0))

Optional(S) == {None} \cup {Some(n) : n \in S}
PlainArgs == {Abs(<<"a">>), Rel(<<"b">>)}
PlainKwargs == {<<>>, [recursive |-> TRUE]}
Returns == {"r1", "r2"}

\* a function decorated with require_args(min, max) is built and called
CallRequireArgs ==
    /\ last.op = "none"
    /\ \E min \in Optional(0..MaxBound), max \in Optional(0..MaxBound),
          args \in ArgLists(PlainArgs), kw \in PlainKwargs, ret \in Returns :
        LET w == require_args(min, max, args, kw)
            r == IF w.raised THEN Raised(fs, w.msg) ELSE Recorder(fs, ret, w.args, w.kwargs)
        IN  /\ last' = [Record("wrapped", args, kw, r)
                            EXCEPT !.cfg = [min |-> min, max |-> max, ret |-> ret]]
            /\ UNCHANGED <<fs, cwd, scopes>>

RequireArgsNext == CallRequireArgs \/ Return
SpecRequireArgs == Init /\ [][RequireArgsNext]_vars

GlobArgs == {Abs(<<"a", Star>>), Abs(<<Star, "b">>), Rel(<<"b">>), Tilde(<<"a">>)}
PathKwargs == {<<>>, [path |-> Tilde(<<Star>>), mode |-> Rel(<<"a">>)]}

\* a function decorated with expand_paths(*keys, do_glob=...) is built and called
CallExpandPaths ==
    /\ last.op = "none"
    /\ \E keys \in SUBSET {"path"}, do_glob \in BOOLEAN,
          args \in ArgLists(GlobArgs), kw \in PathKwargs :
        LET e == expand_paths(keys, do_glob, fs, cwd, args, kw)
            r == Recorder(fs, "r1", e.args, e.kwargs)
        IN  /\ last' = [Record("expanded", args, kw, r)
                            EXCEPT !.cfg = [keys |-> keys, do_glob |-> do_glob]]
            /\ UNCHANGED <<fs, cwd, scopes>>

ExpandPathsNext == CallExpandPaths \/ Return
SpecExpandPaths == Init /\ [][ExpandPathsNext]_vars

(***************************************************************************)
(* The claims about mv, rm, cp and ls.  In a state that a call has just    *)
(* left, last.pre is the filesystem the call found and fs the one it left. *)
(***************************************************************************)
\* the i-th raw argument of the last call, expanded as expand_path does
Expanded(i) == expand_path(last.precwd, last.args[i])
\* the i-th raw argument of the last call, as the operating system resolves it
Resolved(i) == ospath(last.precwd, last.args[i])

\* A path matches a pattern when it has the pattern's components, "*" standing
\* for any one name.
Matches(p, pat) ==
    /\ Len(p) = Len(pat)
    /\ \A i \in 1..Len(pat) : pat[i] = Star \/ pat[i] = p[i]
MatchSet(f, pat) == {p \in Paths : exists(f, p) /\ Matches(p, pat)}

\* C6: in mv, rm and cp the number of arguments is checked on the raw arguments,
\* before any expansion and any change: with fewer than the minimum (1 for rm, 2
\* for mv and cp) the call raises TypeError, the body is not entered and the
\* filesystem is as it was; with enough, the call is no TypeError whatever the
\* patterns match and the body is entered, with no argument at all when nothing
\* matches.
C6_ArityOnRawArguments ==
    last.op \in {"mv", "rm", "cp"} =>
        LET min == IF last.op = "rm" THEN 1 ELSE 2
        IN  IF Len(last.args) < min
            THEN last.outcome = "TypeError" /\ ~last.ran /\ fs = last.pre
            ELSE /\ last.outcome # "TypeError"
                 /\ last.ran
                 /\ last.op \in {"rm", "cp"}
                    /\ (\A i \in 1..Len(last.args) : MatchSet(last.pre, Expanded(i)) = {})
                    => last.passed = <<>>

\* C6's case: cp with enough raw arguments, none of which matches anything.
C6_Witness ==
    /\ last.op = "cp"
    /\ Len(last.args) >= 2
    /\ last.ran
    /\ last.passed = <<>>

\* C3, as claimed: rm of one path that does not exist leaves the filesystem as
\* it was and returns when ignore_errors is true, and fails when it is false.
C3_RmMissingPath ==
    (/\ last.op = "rm"
     /\ Len(last.args) = 1
     /\ ~has_magic(Expanded(1))
     /\ ~exists(last.pre, Expanded(1)))
    => IF last.kw.ignore_errors
       THEN last.outcome = "ok" /\ fs = last.pre
       ELSE last.outcome # "ok"

\* C2, as claimed: cp(dir_a, new_path), new_path not existing, leaves at new_path
\* a copy of dir_a's tree, whatever the recursive flag.
C2_CpDirToNewPath ==
    (/\ last.op = "cp"
     /\ Len(last.args) = 2
     /\ ~has_magic(Expanded(1)) /\ ~has_magic(Expanded(2))
     /\ isdir(last.pre, Expanded(1))
     /\ ~exists(last.pre, Expanded(2)))
    => /\ last.outcome = "ok"
       /\ \A q \in Paths : IsPrefix(Expanded(1), q)
             => Kind(fs, Expanded(2) \o Suffix(Expanded(1), q)) = last.pre[q]

\* C4, as claimed: cp with two or more sources and a last argument that is no
\* existing directory raises ValueError and copies nothing.
C4_CpManySourcesNeedDirectory ==
    (/\ last.op = "cp"
     /\ Len(last.args) >= 3
     /\ ~has_magic(Expanded(Len(last.args)))
     /\ ~isdir(last.pre, Expanded(Len(last.args))))
    => last.outcome = "ValueError" /\ fs = last.pre

\* C8, as claimed: ls returns the bare sequence exactly when it was called with
\* one argument or none, and a mapping from each given path for two or more.
C8_LsShapeByArgumentCount ==
    last.op = "ls" =>
        IF Len(last.args) <= 1
        THEN last.result.shape = "seq"
        ELSE /\ last.result.shape = "map"
             /\ DOMAIN last.result.map = {Abs(Expanded(i)) : i \in 1..Len(last.args)}

\* the resolved paths the body of rm was entered with, and those of them that
\* are files, among the first n
RmFilesBefore(n) == {last.passed[j] : j \in 1..n} \ {p \in Paths : isdir(last.pre, p)}
\* the first directory among the resolved paths is the i-th, and rm reaches it
\* (no file before it is named twice)
RmReachesDir(i) ==
    /\ i \in 1..Len(last.passed)
    /\ isdir(last.pre, last.passed[i])
    /\ \A j \in 1..(i - 1) : ~isdir(last.pre, last.passed[j])
    /\ \A j, k \in 1..(i - 1) : j # k => last.passed[j] # last.passed[k]
RemovedFiles(f, gone) == [q \in Paths |-> IF q \in gone THEN "none" ELSE f[q]]

\* C9: rm without recursive deals with its resolved paths in order.  With
\* ignore_errors false, a directory it reaches raises OSError at once: the files
\* before it are removed and nothing else has changed.  With ignore_errors true
\* no error is raised, every directory stays and every file named, before or
\* after a directory, is removed.
C9_RmDirectoryWithoutRecursive ==
    (last.op = "rm" /\ last.ran /\ ~last.kw.recursive) =>
        IF last.kw.ignore_errors
        THEN /\ last.outcome = "ok"
             /\ last.at = Len(last.passed)
             /\ fs = RemovedFiles(last.pre, RmFilesBefore(Len(last.passed)))
        ELSE \A i \in 1..Len(last.passed) : RmReachesDir(i) =>
                /\ last.outcome = "OSError"
                /\ last.at = i - 1
                /\ fs = RemovedFiles(last.pre, RmFilesBefore(i - 1))
                /\ isdir(fs, last.passed[i])

\* C9's case: rm raised at a directory after it had removed a file, with a path
\* still to come.
C9_Witness ==
    /\ last.op = "rm" /\ last.ran
    /\ ~last.kw.recursive /\ ~last.kw.ignore_errors
    /\ last.outcome = "OSError"
    /\ last.at >= 1
    /\ Len(last.passed) > last.at + 1
    /\ fs # last.pre
    /\ exists(fs, last.passed[Len(last.passed)])

\* mv's target, its i-th source and the place of that source in the target
MvTarget == Resolved(Len(last.args))
MvSources == 1..(Len(last.args) - 1)
MvPlace(i) == MvTarget \o <<Basename(last.args[i].comps)>>
\* the i-th move cannot be made in filesystem f: the source does not exist, its
\* name is taken in the target, or it is a directory that holds the target
MvBlocked(f, i) ==
    \/ ~exists(f, Resolved(i))
    \/ exists(f, MvPlace(i))
    \/ IsPrefix(Resolved(i), MvTarget)
\* sources that exist, none inside another or holding or inside the target, with
\* different names, none of them taken in the target
MvPlain ==
    /\ \A i \in MvSources :
          /\ exists(last.pre, Resolved(i))
          /\ ~exists(last.pre, MvPlace(i))
          /\ ~IsPrefix(Resolved(i), MvTarget)
          /\ ~IsPrefix(MvTarget, Resolved(i))
    /\ \A i, j \in MvSources : i # j =>
          /\ ~IsPrefix(Resolved(i), Resolved(j))
          /\ MvPlace(i) # MvPlace(j)

\* C10, as claimed: mv with two or more sources moves every source into a last
\* argument that is an existing directory, and otherwise raises ValueError and
\* changes nothing.
C10_MvMovesEverySource ==
    (last.op = "mv" /\ Len(last.args) >= 3) =>
        IF isdir(last.pre, MvTarget)
        THEN \A i \in MvSources : ~exists(fs, Resolved(i)) /\ exists(fs, MvPlace(i))
        ELSE last.outcome = "ValueError" /\ fs = last.pre

\* C10, amended: mv with two or more sources, the arguments taken as given.  A
\* last argument that is no existing directory raises ValueError and changes
\* nothing.  Into an existing directory the sources are moved one at a time, in
\* order, each under its own basename, until a move cannot be made; a source that
\* is the directory itself stays.  The sources dealt with are in the directory
\* and no longer at their old paths, the failed move is one that cannot be made,
\* and the paths outside the target and the moved sources are as they were.
\* Sources that can all be moved are all moved, with their trees.
C10_MvInOrderUntilFailure ==
    (last.op = "mv" /\ Len(last.args) >= 3) =>
        IF ~isdir(last.pre, MvTarget)
        THEN last.outcome = "ValueError" /\ fs = last.pre /\ last.at = 0
        ELSE /\ last.outcome # "ValueError"
             /\ (last.outcome = "ok") = (last.at = Len(last.args) - 1)
             /\ \A i \in 1..last.at : Resolved(i) # MvTarget =>
                   /\ ~exists(fs, Resolved(i))
                   /\ Kind(fs, MvPlace(i)) = Kind(last.pre, Resolved(i))
                   /\ exists(fs, MvPlace(i))
             /\ last.outcome # "ok" => MvBlocked(fs, last.at + 1)
             /\ \A q \in Paths :
                   (/\ ~IsPrefix(MvTarget, q)
                    /\ \A i \in 1..last.at : ~IsPrefix(Resolved(i), q))
                   => fs[q] = last.pre[q]
             /\ MvPlain =>
                   /\ last.outcome = "ok"
                   /\ \A i \in MvSources : \A q \in Paths : IsPrefix(Resolved(i), q) =>
                         Kind(fs, MvPlace(i) \o Suffix(Resolved(i), q)) = last.pre[q]

\* C10's case: two sources moved into an existing directory.
C10_Witness ==
    /\ last.op = "mv" /\ Len(last.args) = 3
    /\ isdir(last.pre, MvTarget)
    /\ MvPlain
    /\ last.outcome = "ok"
    /\ last.at = 2

(***************************************************************************)
(* The claims about current_directory and about the decorators.            *)
(***************************************************************************)
\* C1, as claimed: inside a current_directory(d) scope the working directory is
\* expand_path(d), and after the scope, however its body ended, it is the one
\* that was current before entry.
C1_ScopeRestoresDirectory ==
    /\ (last.op = "enter" /\ last.outcome = "ok")
           => cwd = expand_path(last.precwd, last.args[1])
    /\ last.op = "exit" => cwd = last.kw.cur_dir

\* the absolute path of a raw argument taken in working directory c
AbsoluteOf(c, raw) ==
    CASE raw.kind = "abs" -> raw.comps
      [] raw.kind = "rel" -> c \o raw.comps
      [] raw.kind = "home" -> Home \o raw.comps

\* a directory lists a before b: the order of two paths of the same length
NameIndex(n) == CHOOSE i \in 1..Len(NameOrder) : NameOrder[i] = n
Before(p, q) ==
    \E i \in 1..Len(p) :
        /\ NameIndex(p[i]) < NameIndex(q[i])
        /\ \A j \in 1..(i - 1) : p[j] = q[j]
\* the paths that match a pattern, in listing order
MatchSeq(f, pat) ==
    LET S == MatchSet(f, pat)
    IN  CHOOSE m \in [1..Cardinality(S) -> S] :
            \A i, j \in 1..Cardinality(S) : i < j => Before(m[i], m[j])
RECURSIVE MatchesFrom(_, _, _, _)
\* the matches of the i-th argument, then those of the next, and so on
MatchesFrom(f, c, args, i) ==
    IF i > Len(args) THEN <<>>
    ELSE MatchSeq(f, AbsoluteOf(c, args[i])) \o MatchesFrom(f, c, args, i + 1)

\* C5: a function decorated with require_args(min, max) and called with N
\* positional arguments is entered, with the very arguments of the call,
\* positional and named, and its result returned, exactly when min, if set, is
\* at most N and max, if set, is at least N; otherwise the call raises TypeError
\* and the function is not entered.  With neither bound set it never raises.
C5_RequireArgsAcceptsWithinBounds ==
    last.op = "wrapped" =>
        LET N == Len(last.args)
            min == last.cfg.min
            max == last.cfg.max
            within == (min = None \/ Val(min) <= N) /\ (max = None \/ N <= Val(max))
        IN  /\ within =>
                /\ last.ran
                /\ last.outcome = "ok"
                /\ last.passed = last.args
                /\ last.kwpassed = last.kw
                /\ last.result = Returned(last.cfg.ret)
            /\ ~within =>
                /\ ~last.ran
                /\ last.outcome = "TypeError"
                /\ last.result = NoResult
            /\ (min = None /\ max = None) => last.outcome # "TypeError"
            /\ fs = last.pre

\* C5's case: both bounds set, and as many arguments as the upper bound allows.
C5_Witness ==
    /\ last.op = "wrapped"
    /\ last.cfg.min # None /\ last.cfg.max # None
    /\ Len(last.args) = Val(last.cfg.max)
    /\ Val(last.cfg.min) < Val(last.cfg.max)
    /\ last.kw # <<>>
    /\ last.ran

\* C7: a function decorated with expand_paths is entered, without any error,
\* with: when do_glob is true, the matches of the first expanded positional
\* argument, then those of the second, and so on, a pattern without a match
\* giving none; when do_glob is false, the expanded path of each positional
\* argument, in order; and the named arguments of the call, those whose key is
\* configured replaced by their expanded path, unglobbed, the others as given.
C7_ExpandPathsArguments ==
    last.op = "expanded" =>
        /\ last.ran /\ last.outcome = "ok"
        /\ last.cfg.do_glob =>
              last.passed = MatchesFrom(last.pre, last.precwd, last.args, 1)
        /\ ~last.cfg.do_glob =>
              /\ Len(last.passed) = Len(last.args)
              /\ \A i \in 1..Len(last.args) :
                    last.passed[i] = AbsoluteOf(last.precwd, last.args[i])
        /\ DOMAIN last.kwpassed = DOMAIN last.kw
        /\ \A k \in DOMAIN last.kw :
              IF k \in last.cfg.keys
              THEN last.kwpassed[k] = AbsoluteOf(last.precwd, last.kw[k])
              ELSE last.kwpassed[k] = last.kw[k]
        /\ fs = last.pre

\* C7's case: with do_glob, one pattern matched nothing and another matched two
\* paths, and a configured named argument was given.
C7_Witness ==
    /\ last.op = "expanded"
    /\ last.cfg.do_glob
    /\ last.cfg.keys = {"path"} /\ last.kw # <<>>
    /\ Len(last.args) = 3
    /\ MatchSet(last.pre, AbsoluteOf(last.precwd, last.args[1])) = {}
    /\ Cardinality(MatchSet(last.pre, AbsoluteOf(last.precwd, last.args[2]))) = 2
    /\ Len(last.passed) >= 3

=============================================================================
